---- MODULE Spec2Model ----
(***************************************************************************)
(* whatsapp-transcriber: the pipeline of main.py as a state machine.       *)
(*                                                                         *)
(* Strings are sequences of one-character strings, so that str.find,       *)
(* slicing, str.strip and the f-string of the annotation line are computed *)
(* as Python computes them.  File names, chat lines and transcription      *)
(* texts all share that representation.                                    *)
(***************************************************************************)
EXTENDS Integers, Sequences, FiniteSets, TLC

VARIABLES
    pc,                    \* position of main(): the statement about to run
    failed_at,             \* stage whose exception ended the run, or "none"
    stages,                \* history: the stages of main() entered so far
    errors,                \* history: the stages in which an exception was raised
    archive,               \* names of the members of the ZIP file
    dir,                   \* extract_path: [exists, files]
    runs,                  \* history: completed calls of extract_whatsapp_zip
    audio_files,           \* result of find_audio_files
    i,                     \* transcribe loop: number of files finished
    calls,                 \* history: file names handed to model.transcribe
    engine_out,            \* history: what model.transcribe did for each name
    transcriptions,        \* dict: file name -> text
    chat_lines,            \* result of read_chat_file
    n,                     \* integrate loop: number of chat lines consumed
    extracted,             \* history: per consumed line, the branch taken and audio_filename
    final_lines,           \* list built by integrate_transcriptions
    transcriptions_added,  \* counter of integrate_transcriptions
    out_file,              \* destination file: [exists, lines]
    out0,                  \* history: the destination file as the run found it
    stats                  \* the statistics logged at the end of main()

vars == <<pc, failed_at, stages, errors, archive, dir, runs, audio_files, i, calls,
          engine_out, transcriptions, chat_lines, n, extracted, final_lines,
          transcriptions_added, out_file, out0, stats>>

----------------------------------------------------------------------------
(* Bounds *)

MaxLines == 2

MaxRuns == 2

----------------------------------------------------------------------------
(* Literals of main.py *)

ATTACHED == <<"<", "a", "t", "t", "a", "c", "h", "e", "d", ":">>

ATTACHED_SP == <<"<", "a", "t", "t", "a", "c", "h", "e", "d", ":", " ">>

OPUS == <<".", "o", "p", "u", "s">>

START_OFFSET == 11

END_OFFSET == 5

SENTINEL == <<"[", "T", "r", "a", "n", "s", "c", "r", "i", "p", "t", "i", "o", "n", " ", "f", "a", "i", "l", "e", "d", "]">>

ANNOT_PREFIX == <<" ", " ", " ", " ", "(", "T", "r", "a", "n", "s", "c", "r", "i", "p", "t", "i", "o", "n", ":", " ">>

ANNOT_SUFFIX == <<")", "\n">>

CHAT_NAME == <<"_", "c", "h", "a", "t", ".", "t", "x", "t">>

WHITESPACE == {" ", "\n", "\t"}

----------------------------------------------------------------------------
(* Python string operations *)

Min(a, b) == IF a < b THEN a ELSE b

\* pat occurs in s at 0-based offset k
OccursAt(s, pat, k) ==
    /\ k >= 0
    /\ k + Len(pat) <= Len(s)
    /\ \A j \in 1..Len(pat) : s[k + j] = pat[j]

Occurrences(s, pat) == {k \in 0..Len(s) : OccursAt(s, pat, k)}

\* pat in s
Contains(s, pat) == Occurrences(s, pat) # {}

\* s.find(pat): lowest 0-based offset, -1 when absent
Find(s, pat) ==
    IF Contains(s, pat)
    THEN CHOOSE k \in Occurrences(s, pat) : \A m \in Occurrences(s, pat) : k <= m
    ELSE -1

\* s[a:b] for a, b >= 0
Slice(s, a, b) ==
    IF a >= Min(b, Len(s)) THEN <<>> ELSE SubSeq(s, a + 1, Min(b, Len(s)))

\* s.endswith(suffix)
EndsWith(s, suffix) == OccursAt(s, suffix, Len(s) - Len(suffix))

StartsWith(s, prefix) == OccursAt(s, prefix, 0)

RECURSIVE LStrip(_)
LStrip(s) == IF s # <<>> /\ Head(s) \in WHITESPACE THEN LStrip(Tail(s)) ELSE s

RECURSIVE RStrip(_)
RStrip(s) ==
    IF s # <<>> /\ s[Len(s)] \in WHITESPACE THEN RStrip(SubSeq(s, 1, Len(s) - 1)) ELSE s

\* s.strip()
Strip(s) == RStrip(LStrip(s))

\* code point order of the characters that occur in file names
CodePoints == <<".", "_", "a", "b", "c", "g", "h", "j", "o", "p", "s", "t", "u", "x">>

Ord(c) == CHOOSE k \in 1..Len(CodePoints) : CodePoints[k] = c

\* a < b for str
RECURSIVE StrLess(_, _)
StrLess(a, b) ==
    IF b = <<>> THEN FALSE
    ELSE IF a = <<>> THEN TRUE
    ELSE IF Head(a) = Head(b) THEN StrLess(Tail(a), Tail(b))
    ELSE Ord(Head(a)) < Ord(Head(b))

\* insertion of one name into a sorted list
RECURSIVE Insert(_, _)
Insert(x, s) ==
    IF s = <<>> THEN <<x>>
    ELSE IF StrLess(Head(s), x) THEN <<Head(s)>> \o Insert(x, Tail(s))
    ELSE <<x>> \o s

\* sorted(seq)
RECURSIVE Sorted(_)
Sorted(s) == IF s = <<>> THEN <<>> ELSE Insert(Head(s), Sorted(Tail(s)))

Range(s) == {s[k] : k \in DOMAIN s}

\* the enumeration orders a directory listing can come in
Listings(S) == {s \in [1..Cardinality(S) -> S] : Range(s) = S}

----------------------------------------------------------------------------
(* Inputs *)

A_OPUS == <<"a", ".", "o", "p", "u", "s">>

B_OPUS == <<"b", ".", "o", "p", "u", "s">>

C_JPG == <<"c", ".", "j", "p", "g">>

\* the ZIP files: a photo, and any of two voice messages and the chat log
Archives == {S \cup {C_JPG} : S \in SUBSET {A_OPUS, B_OPUS, CHAT_NAME}}

\* result["text"] of model.transcribe
EngineTexts == {<<" ", "h", "i", "\n">>, <<"o", "k">>}

L_PLAIN == <<"A", "l", ":", " ", "h", "i", "\n">>

L_REF_A == <<"A", "l", ":", " ", "<", "a", "t", "t", "a", "c", "h", "e", "d", ":", " ", "a", ".", "o", "p", "u", "s", ">", "\n">>

L_REF_B == <<"B", "o", ":", " ", "<", "a", "t", "t", "a", "c", "h", "e", "d", ":", " ", "b", ".", "o", "p", "u", "s", ">", "\n">>

L_JPG == <<"A", "l", ":", " ", "<", "a", "t", "t", "a", "c", "h", "e", "d", ":", " ", "c", ".", "j", "p", "g", ">", "\n">>

L_OPUS_ONLY == <<"A", "l", ":", " ", "s", "e", "n", "d", " ", "a", ".", "o", "p", "u", "s", "\n">>

L_TWO == <<"A", "l", ":", " ", "<", "a", "t", "t", "a", "c", "h", "e", "d", ":", " ", "a", ".", "o", "p", "u", "s", ">", " ", "<", "a", "t", "t", "a", "c", "h", "e", "d", ":", " ", "b", ".", "o", "p", "u", "s", ">", "\n">>

L_EXT_FIRST == <<"a", ".", "o", "p", "u", "s", " ", "<", "a", "t", "t", "a", "c", "h", "e", "d", ":", " ", "b", ".", "o", "p", "u", "s", ">", "\n">>

L_NO_SPACE == <<"A", "l", ":", " ", "<", "a", "t", "t", "a", "c", "h", "e", "d", ":", "a", ".", "o", "p", "u", "s", ">", "\n">>

L_EXT_AT_10 == <<"s", "e", "e", " ", "n", "o", "t", "e", "s", " ", "a", ".", "o", "p", "u", "s", " ", "<", "a", "t", "t", "a", "c", "h", "e", "d", ":", "1", ">", "\n">>

ChatLineSet == {L_PLAIN, L_REF_A, L_REF_B, L_JPG, L_OPUS_ONLY, L_TWO, L_EXT_FIRST,
                L_NO_SPACE, L_EXT_AT_10}

\* the contents _chat.txt can have
ChatLogs == UNION {[1..k -> ChatLineSet] : k \in 0..MaxLines}

OLD_OUTPUT == <<<<"o", "l", "d", "\n">>>>

NoFile == [exists |-> FALSE, lines |-> <<>>]

NoDir == [exists |-> FALSE, files |-> {}]

NoStats == [k \in {} |-> 0]

EmptyDict == [k \in {} |-> <<>>]

----------------------------------------------------------------------------
(* State after the arguments of main() are bound *)

InitRun ==
    /\ pc = "extract"
    /\ failed_at = "none"
    /\ stages = <<>>
    /\ errors = {}
    /\ runs = 0
    /\ audio_files = <<>>
    /\ i = 0
    /\ calls = <<>>
    /\ engine_out = EmptyDict
    /\ transcriptions = EmptyDict
    /\ chat_lines = <<>>
    /\ n = 0
    /\ extracted = <<>>
    /\ final_lines = <<>>
    /\ transcriptions_added = 0
    /\ stats = NoStats

\* one run of main(): the extraction folder is absent, or is the one an earlier
\* run extracted from this archive; the destination is absent or an earlier output
Init ==
    /\ InitRun
    /\ archive \in Archives
    /\ dir \in {NoDir, [exists |-> TRUE, files |-> archive]}
    /\ out_file \in {NoFile, [exists |-> TRUE, lines |-> OLD_OUTPUT]}
    /\ out0 = out_file

\* repeated calls of extract_whatsapp_zip: the folder is absent or holds anything
InitMaterialize ==
    /\ InitRun
    /\ archive \in Archives
    /\ dir \in {NoDir} \cup {[exists |-> TRUE, files |-> S] : S \in SUBSET archive}
    /\ out_file = NoFile
    /\ out0 = out_file

Fail(stage) ==
    /\ pc' = "failed"
    /\ failed_at' = stage
    /\ errors' = errors \cup {stage}

----------------------------------------------------------------------------
(* extract_whatsapp_zip *)

\* variant of MustExtract that extracts on every call
MustExtract_Always == TRUE

\* if not os.path.exists(extract_path)
MustExtract == ~dir.exists

ExtractCheck ==
    /\ pc = "extract"
    /\ stages' = Append(stages, "extract")
    /\ IF MustExtract
       THEN /\ pc' = "extracting"
            /\ runs' = runs
       ELSE /\ pc' = "load_model"
            /\ runs' = runs + 1
    /\ UNCHANGED <<failed_at, errors, archive, dir, audio_files, i, calls, engine_out,
                   transcriptions, chat_lines, n, extracted, final_lines,
                   transcriptions_added, out_file, out0, stats>>

\* zipfile.ZipFile(zip_path).extractall(extract_path) returns
ExtractOk ==
    /\ pc = "extracting"
    /\ dir' = [exists |-> TRUE, files |-> archive]
    /\ pc' = "load_model"
    /\ runs' = runs + 1
    /\ UNCHANGED <<failed_at, stages, errors, archive, audio_files, i, calls, engine_out,
                   transcriptions, chat_lines, n, extracted, final_lines,
                   transcriptions_added, out_file, out0, stats>>

\* the ZIP cannot be opened (nothing is created), or extractall raises after it
\* has written some of the members
ExtractFail ==
    /\ pc = "extracting"
    /\ \/ dir' = dir
       \/ \E S \in SUBSET archive : S # archive /\ dir' = [exists |-> TRUE, files |-> S]
    /\ Fail("extract")
    /\ runs' = runs + 1
    /\ UNCHANGED <<stages, archive, audio_files, i, calls, engine_out,
                   transcriptions, chat_lines, n, extracted, final_lines,
                   transcriptions_added, out_file, out0, stats>>

\* the same call made again, on the same archive and folder
ExtractAgain ==
    /\ runs >= 1
    /\ runs < MaxRuns
    /\ pc \in {"load_model", "failed"}
    /\ pc' = "extract"
    /\ failed_at' = "none"
    /\ UNCHANGED <<stages, errors, archive, dir, runs, audio_files, i, calls, engine_out,
                   transcriptions, chat_lines, n, extracted, final_lines,
                   transcriptions_added, out_file, out0, stats>>

----------------------------------------------------------------------------
(* load_whisper_model *)

LoadModelOk ==
    /\ pc = "load_model"
    /\ runs = 1
    /\ stages' = Append(stages, "load_model")
    /\ pc' = "find"
    /\ UNCHANGED <<failed_at, errors, archive, dir, runs, audio_files, i, calls,
                   engine_out, transcriptions, chat_lines, n, extracted, final_lines,
                   transcriptions_added, out_file, out0, stats>>

\* variant of LoadModelFail whose except block logs and does not re-raise
LoadModelFail_Swallowed ==
    /\ pc = "load_model"
    /\ runs = 1
    /\ stages' = Append(stages, "load_model")
    /\ errors' = errors \cup {"load_model"}
    /\ pc' = "find"
    /\ UNCHANGED <<failed_at, archive, dir, runs, audio_files, i, calls, engine_out,
                   transcriptions, chat_lines, n, extracted, final_lines,
                   transcriptions_added, out_file, out0, stats>>

\* whisper.load_model raises; the except block logs and re-raises
LoadModelFail ==
    /\ pc = "load_model"
    /\ runs = 1
    /\ stages' = Append(stages, "load_model")
    /\ Fail("load_model")
    /\ UNCHANGED <<archive, dir, runs, audio_files, i, calls, engine_out,
                   transcriptions, chat_lines, n, extracted, final_lines,
                   transcriptions_added, out_file, out0, stats>>

----------------------------------------------------------------------------
(* find_audio_files *)

\* audio_folder.glob("*.opus")
GlobOpus(files) == {f \in files : EndsWith(f, OPUS)}

\* variant of SortListing that keeps the enumeration order
SortListing_Unsorted(listing) == listing

\* list(sorted(listing))
SortListing(listing) == Sorted(listing)

FindAudioFiles ==
    /\ pc = "find"
    /\ stages' = Append(stages, "find")
    /\ \E listing \in Listings(GlobOpus(dir.files)) :
           audio_files' = SortListing(listing)
    /\ pc' = "transcribe"
    /\ UNCHANGED <<failed_at, errors, archive, dir, runs, i, calls, engine_out,
                   transcriptions, chat_lines, n, extracted, final_lines,
                   transcriptions_added, out_file, out0, stats>>

----------------------------------------------------------------------------
(* transcribe_audio_files *)

Put(dict, key, value) == [k \in DOMAIN dict \cup {key} |-> IF k = key THEN value ELSE dict[k]]

\* for i, audio_file in enumerate(audio_files, 1): model.transcribe(...) is entered
TranscribeCall ==
    /\ pc = "transcribe"
    /\ i < Len(audio_files)
    /\ stages' = IF i = 0 THEN Append(stages, "transcribe") ELSE stages
    /\ calls' = Append(calls, audio_files[i + 1])
    /\ pc' = "engine"
    /\ UNCHANGED <<failed_at, errors, archive, dir, runs, audio_files, i, engine_out,
                   transcriptions, chat_lines, n, extracted, final_lines,
                   transcriptions_added, out_file, out0, stats>>

\* model.transcribe returns: transcriptions[audio_file.name] = result["text"].strip()
TranscribeOk ==
    /\ pc = "engine"
    /\ \E text \in EngineTexts :
           /\ engine_out' = Put(engine_out, audio_files[i + 1], [ok |-> TRUE, text |-> text])
           /\ transcriptions' = Put(transcriptions, audio_files[i + 1], Strip(text))
    /\ i' = i + 1
    /\ pc' = "transcribe"
    /\ UNCHANGED <<failed_at, stages, errors, archive, dir, runs, audio_files, calls,
                   chat_lines, n, extracted, final_lines, transcriptions_added,
                   out_file, out0, stats>>

\* variant of TranscribeFail without the try/except: the exception leaves the loop
TranscribeFail_Propagates ==
    /\ pc = "engine"
    /\ engine_out' = Put(engine_out, audio_files[i + 1], [ok |-> FALSE, text |-> <<>>])
    /\ Fail("transcribe")
    /\ UNCHANGED <<stages, archive, dir, runs, audio_files, i, calls, transcriptions,
                   chat_lines, n, extracted, final_lines, transcriptions_added,
                   out_file, out0, stats>>

\* except Exception: transcriptions[audio_file.name] = "[Transcription failed]"
TranscribeFail ==
    /\ pc = "engine"
    /\ engine_out' = Put(engine_out, audio_files[i + 1], [ok |-> FALSE, text |-> <<>>])
    /\ transcriptions' = Put(transcriptions, audio_files[i + 1], SENTINEL)
    /\ i' = i + 1
    /\ pc' = "transcribe"
    /\ UNCHANGED <<failed_at, stages, errors, archive, dir, runs, audio_files, calls,
                   chat_lines, n, extracted, final_lines, transcriptions_added,
                   out_file, out0, stats>>

\* the for loop is exhausted: return transcriptions
TranscribeReturn ==
    /\ pc = "transcribe"
    /\ i = Len(audio_files)
    /\ stages' = IF i = 0 THEN Append(stages, "transcribe") ELSE stages
    /\ pc' = "read_chat"
    /\ UNCHANGED <<failed_at, errors, archive, dir, runs, audio_files, i, calls,
                   engine_out, transcriptions, chat_lines, n, extracted, final_lines,
                   transcriptions_added, out_file, out0, stats>>

----------------------------------------------------------------------------
(* read_chat_file *)

\* f.readlines() of audio_folder / "_chat.txt"
ReadChatOk ==
    /\ pc = "read_chat"
    /\ CHAT_NAME \in dir.files
    /\ stages' = Append(stages, "read_chat")
    /\ chat_lines' \in ChatLogs
    /\ pc' = "integrate"
    /\ UNCHANGED <<failed_at, errors, archive, dir, runs, audio_files, i, calls,
                   engine_out, transcriptions, n, extracted, final_lines,
                   transcriptions_added, out_file, out0, stats>>

\* open or readlines raises (file missing, unreadable, not UTF-8): logged and re-raised
ReadChatFail ==
    /\ pc = "read_chat"
    /\ stages' = Append(stages, "read_chat")
    /\ Fail("read_chat")
    /\ UNCHANGED <<archive, dir, runs, audio_files, i, calls, engine_out,
                   transcriptions, chat_lines, n, extracted, final_lines,
                   transcriptions_added, out_file, out0, stats>>

----------------------------------------------------------------------------
(* integrate_transcriptions *)

\* if "<attached:" in line and ".opus" in line
IsAttachmentLine(line) == Contains(line, ATTACHED) /\ Contains(line, OPUS)

\* start = line.find("<attached: ") + 11; end = line.find(".opus") + 5; line[start:end]
AudioFilename(line) ==
    Slice(line, Find(line, ATTACHED_SP) + START_OFFSET, Find(line, OPUS) + END_OFFSET)

\* f"    (Transcription: {transcription})\n"
Annotation(transcription) == ANNOT_PREFIX \o transcription \o ANNOT_SUFFIX

\* if audio_filename in transcriptions
Matched(line, dict) == IsAttachmentLine(line) /\ AudioFilename(line) \in DOMAIN dict

\* variant of AnnotationsFor that inserts nothing for a failed transcription
AnnotationsFor_SkipFailed(line, dict) ==
    IF Matched(line, dict) /\ dict[AudioFilename(line)] # SENTINEL
    THEN <<Annotation(dict[AudioFilename(line)])>>
    ELSE <<>>

\* variant of AnnotationsFor that inserts once per "<attached: " marker of the line
AnnotationsFor_EveryMarker(line, dict) ==
    IF Matched(line, dict)
    THEN [k \in 1..Cardinality(Occurrences(line, ATTACHED_SP)) |->
             Annotation(dict[AudioFilename(line)])]
    ELSE <<>>

\* what one iteration appends after the original line
AnnotationsFor(line, dict) ==
    IF Matched(line, dict) THEN <<Annotation(dict[AudioFilename(line)])>> ELSE <<>>

\* one iteration of: for line in chat_lines
IntegrateLine ==
    /\ pc = "integrate"
    /\ n < Len(chat_lines)
    /\ LET line == chat_lines[n + 1] IN
         /\ final_lines' = (final_lines \o <<line>>) \o AnnotationsFor(line, transcriptions)
         /\ transcriptions_added' =
                IF Matched(line, transcriptions)
                THEN transcriptions_added + 1
                ELSE transcriptions_added
         /\ extracted' = Append(extracted,
                [ref |-> IsAttachmentLine(line),
                 id  |-> IF IsAttachmentLine(line) THEN AudioFilename(line) ELSE <<>>])
    /\ stages' = IF n = 0 THEN Append(stages, "integrate") ELSE stages
    /\ n' = n + 1
    /\ UNCHANGED <<pc, failed_at, errors, archive, dir, runs, audio_files, i, calls,
                   engine_out, transcriptions, chat_lines, out_file, out0, stats>>

\* return final_lines, transcriptions_added
IntegrateReturn ==
    /\ pc = "integrate"
    /\ n = Len(chat_lines)
    /\ stages' = IF n = 0 THEN Append(stages, "integrate") ELSE stages
    /\ pc' = "write_open"
    /\ UNCHANGED <<failed_at, errors, archive, dir, runs, audio_files, i, calls,
                   engine_out, transcriptions, chat_lines, n, extracted, final_lines,
                   transcriptions_added, out_file, out0, stats>>

----------------------------------------------------------------------------
(* write_output_file *)

\* open(output_file_path, "w") succeeds: the file now exists and is empty
WriteOpenOk ==
    /\ pc = "write_open"
    /\ stages' = Append(stages, "write")
    /\ out_file' = [exists |-> TRUE, lines |-> <<>>]
    /\ pc' = "writing"
    /\ UNCHANGED <<failed_at, errors, archive, dir, runs, audio_files, i, calls,
                   engine_out, transcriptions, chat_lines, n, extracted, final_lines,
                   transcriptions_added, out0, stats>>

\* open raises (permission, invalid path): nothing is touched
WriteOpenFail ==
    /\ pc = "write_open"
    /\ stages' = Append(stages, "write")
    /\ Fail("write")
    /\ UNCHANGED <<archive, dir, runs, audio_files, i, calls, engine_out,
                   transcriptions, chat_lines, n, extracted, final_lines,
                   transcriptions_added, out_file, out0, stats>>

\* f.writelines(final_lines) and the close succeed
WriteLinesOk ==
    /\ pc = "writing"
    /\ out_file' = [exists |-> TRUE, lines |-> final_lines]
    /\ pc' = "stats"
    /\ UNCHANGED <<failed_at, stages, errors, archive, dir, runs, audio_files, i, calls,
                   engine_out, transcriptions, chat_lines, n, extracted, final_lines,
                   transcriptions_added, out0, stats>>

\* writelines or the close raises (disk full): what was flushed stays in the file
WriteLinesFail ==
    /\ pc = "writing"
    /\ \E k \in 0..Len(final_lines) :
           out_file' = [exists |-> TRUE, lines |-> SubSeq(final_lines, 1, k)]
    /\ Fail("write")
    /\ UNCHANGED <<stages, archive, dir, runs, audio_files, i, calls, engine_out,
                   transcriptions, chat_lines, n, extracted, final_lines,
                   transcriptions_added, out0, stats>>

----------------------------------------------------------------------------
(* main: the final statistics *)

\* variant of StatsRecord that reports len(transcriptions) as the insertions
StatsRecord_CountsEntries ==
    [total_audio_files    |-> Len(audio_files),
     transcriptions_added |-> Cardinality(DOMAIN transcriptions),
     output_file          |-> "output/chat.txt"]

StatsRecord ==
    [total_audio_files    |-> Len(audio_files),
     transcriptions_added |-> transcriptions_added,
     output_file          |-> "output/chat.txt"]

LogStats ==
    /\ pc = "stats"
    /\ stages' = Append(stages, "stats")
    /\ stats' = StatsRecord
    /\ pc' = "done"
    /\ UNCHANGED <<failed_at, errors, archive, dir, runs, audio_files, i, calls,
                   engine_out, transcriptions, chat_lines, n, extracted, final_lines,
                   transcriptions_added, out_file, out0>>

----------------------------------------------------------------------------
(* Specifications *)

Next ==
    \/ ExtractCheck
    \/ ExtractOk
    \/ ExtractFail
    \/ LoadModelOk
    \/ LoadModelFail
    \/ FindAudioFiles
    \/ TranscribeCall
    \/ TranscribeOk
    \/ TranscribeFail
    \/ TranscribeReturn
    \/ ReadChatOk
    \/ ReadChatFail
    \/ IntegrateLine
    \/ IntegrateReturn
    \/ WriteOpenOk
    \/ WriteOpenFail
    \/ WriteLinesOk
    \/ WriteLinesFail
    \/ LogStats

Spec == Init /\ [][Next]_vars

NextMaterialize == ExtractCheck \/ ExtractOk \/ ExtractFail \/ ExtractAgain

SpecMaterialize == InitMaterialize /\ [][NextMaterialize]_vars

----------------------------------------------------------------------------
(* The reference grammar the design document states (section 4.4, steps 1-2) *)

\* the marker "<attached:" occurs with ".opus" later in the same line
SpecHasRef(line) ==
    \E a \in Occurrences(line, ATTACHED) :
        \E e \in Occurrences(line, OPUS) : e >= a + Len(ATTACHED)

\* offset just past the first open token, its separator and one space
SpecStart(line) ==
    LET a == Find(line, ATTACHED)
        p == a + Len(ATTACHED)
    IN  IF p < Len(line) /\ line[p + 1] = " " THEN p + 1 ELSE p

\* offset just past the first ".opus" token that follows the first open token
SpecEnd(line) ==
    LET a == Find(line, ATTACHED)
        after == {e \in Occurrences(line, OPUS) : e >= a + Len(ATTACHED)}
    IN  (CHOOSE e \in after : \A m \in after : e <= m) + Len(OPUS)

SpecIdentifier(line) == Slice(line, SpecStart(line), SpecEnd(line))

\* section 6: the token "<attached:" followed by a space and a file name ending
\* in ".opus"
GrammarHasRef(line) ==
    \E a \in Occurrences(line, ATTACHED_SP) :
        \E e \in Occurrences(line, OPUS) : e >= a + Len(ATTACHED_SP)

\* the file name of the first such reference of the line
GrammarIdentifier(line) ==
    LET a == Find(line, ATTACHED_SP)
        after == {e \in Occurrences(line, OPUS) : e >= a + Len(ATTACHED_SP)}
    IN  Slice(line, a + Len(ATTACHED_SP),
              (CHOOSE e \in after : \A m \in after : e <= m) + Len(OPUS))

\* the line holds a reference whose identifier is a key of the mapping
SpecAnnotated(line, dict) == GrammarHasRef(line) /\ GrammarIdentifier(line) \in DOMAIN dict

RECURSIVE SpecAugmented(_, _)
SpecAugmented(lines, dict) ==
    IF lines = <<>> THEN <<>>
    ELSE (<<Head(lines)>>
          \o (IF SpecAnnotated(Head(lines), dict)
              THEN <<Annotation(dict[GrammarIdentifier(Head(lines))])>>
              ELSE <<>>))
         \o SpecAugmented(Tail(lines), dict)

\* a occurs in b as a subsequence: same elements, same relative order
RECURSIVE IsSubsequence(_, _)
IsSubsequence(a, b) ==
    IF a = <<>> THEN TRUE
    ELSE IF b = <<>> THEN FALSE
    ELSE IF Head(a) = Head(b) THEN IsSubsequence(Tail(a), Tail(b))
    ELSE IsSubsequence(a, Tail(b))

\* integrate_transcriptions has returned
IntegrationReturned ==
    \/ pc \in {"write_open", "writing", "stats", "done"}
    \/ pc = "failed" /\ failed_at = "write"

\* transcribe_audio_files has returned
TranscriptionReturned ==
    \/ pc \in {"read_chat", "integrate"}
    \/ IntegrationReturned
    \/ pc = "failed" /\ failed_at = "read_chat"

IsAnnotationLine(line) == StartsWith(line, ANNOT_PREFIX)

AnnotationCount(lines) == Cardinality({k \in DOMAIN lines : IsAnnotationLine(lines[k])})

FAILURE_ANNOTATION == <<" ", " ", " ", " ", "(", "T", "r", "a", "n", "s", "c", "r", "i", "p", "t", "i", "o", "n", ":", " ", "[", "T", "r", "a", "n", "s", "c", "r", "i", "p", "t", "i", "o", "n", " ", "f", "a", "i", "l", "e", "d", "]", ")", "\n">>

\* t is raw without its leading and trailing whitespace
IsTrimOf(t, raw) ==
    /\ t # <<>> => t[1] \notin WHITESPACE /\ t[Len(t)] \notin WHITESPACE
    /\ \E a \in 0..Len(raw) :
           /\ a + Len(t) <= Len(raw)
           /\ SubSeq(raw, a + 1, a + Len(t)) = t
           /\ \A k \in 1..Len(raw) : (k <= a \/ k > a + Len(t)) => raw[k] \in WHITESPACE

FinishedNames == {audio_files[k] : k \in 1..i}

FailedNames == {f \in DOMAIN engine_out : ~engine_out[f].ok}

StageOrder ==
    <<"extract", "load_model", "find", "transcribe", "read_chat", "integrate", "write",
      "stats">>

StageIndex(stage) == CHOOSE k \in DOMAIN StageOrder : StageOrder[k] = stage

----------------------------------------------------------------------------
(* C1 *)

\* C1: once integrate_transcriptions has returned, the output has exactly
\* len(chat_lines) + k lines, k being the number of lines that hold an attachment
\* reference whose identifier is a key of the mapping, and the original lines
\* occur in the output verbatim and in their original order.
C1_LineCount ==
    IntegrationReturned =>
        /\ Len(final_lines) = Len(chat_lines)
              + Cardinality({k \in DOMAIN chat_lines :
                                SpecAnnotated(chat_lines[k], transcriptions)})
        /\ IsSubsequence(chat_lines, final_lines)

----------------------------------------------------------------------------
(* C2 *)

\* C2: the transcription loop never ends the run; at every point the mapping has
\* exactly one entry per finished file, keyed by its name: the sentinel where the
\* engine failed, the trimmed text where it did not; and when the loop has
\* returned every located file was attempted and has its entry.
C2_FailureIsolation ==
    /\ "transcribe" \notin errors
    /\ DOMAIN transcriptions = FinishedNames
    /\ DOMAIN engine_out = FinishedNames
    /\ \A f \in DOMAIN transcriptions :
           IF engine_out[f].ok
           THEN IsTrimOf(transcriptions[f], engine_out[f].text)
           ELSE transcriptions[f] = SENTINEL
    /\ TranscriptionReturned =>
           /\ i = Len(audio_files)
           /\ Range(calls) = Range(audio_files)
           /\ Cardinality(DOMAIN transcriptions) = Len(audio_files)

\* the engine failed on the first of two files and the second has its text
C2_Witness ==
    /\ TranscriptionReturned
    /\ Len(audio_files) = 2
    /\ ~engine_out[audio_files[1]].ok
    /\ engine_out[audio_files[2]].ok
    /\ transcriptions[audio_files[2]] # SENTINEL

----------------------------------------------------------------------------
(* C3 *)

\* C3: once integrate_transcriptions has returned, every input line is followed
\* by exactly one annotation line if and only if it holds an attachment reference
\* whose filename is a key of the mapping, and by nothing otherwise; a log without
\* attachment references comes out identical to the input.
C3_AnnotatedIffReferenced ==
    IntegrationReturned =>
        /\ final_lines = SpecAugmented(chat_lines, transcriptions)
        /\ (\A k \in DOMAIN chat_lines : ~GrammarHasRef(chat_lines[k]))
               => final_lines = chat_lines

----------------------------------------------------------------------------
(* C4 *)

\* C4: every consumed line is treated as a reference exactly when "<attached:"
\* occurs with ".opus" later in the line, and the identifier extracted from it is
\* the span from just after the first open token (its separator and one space
\* skipped) to the end of the first ".opus" token after that open token.
C4_IdentifierExtraction ==
    \A k \in 1..n :
        /\ extracted[k].ref = SpecHasRef(chat_lines[k])
        /\ SpecHasRef(chat_lines[k]) => extracted[k].id = SpecIdentifier(chat_lines[k])

----------------------------------------------------------------------------
(* C5 *)

----------------------------------------------------------------------------
(* C6 *)

\* C6 as claimed: after any fatal failure the destination file is as the run
\* found it (neither produced nor overwritten) and no later stage has run.
C6_DestinationUntouched ==
    pc = "failed" =>
        /\ out_file = out0
        /\ stages = SubSeq(StageOrder, 1, StageIndex(failed_at))

\* C6 amended: a fatal failure ends the run at once and no later stage runs; the
\* destination is as the run found it when the failure is in extraction, model
\* loading or reading the chat log, but a write failure can leave it created or
\* overwritten with an empty or partial output.
C6_Amended ==
    /\ errors # {} => pc = "failed" /\ errors = {failed_at}
    /\ pc = "failed" =>
           /\ stages = SubSeq(StageOrder, 1, StageIndex(failed_at))
           /\ stats = NoStats
           /\ failed_at \in {"extract", "load_model", "read_chat"} => out_file = out0
           /\ failed_at = "write" =>
                  \/ out_file = out0
                  \/ /\ out_file.exists
                     /\ \E k \in 0..Len(final_lines) :
                            out_file.lines = SubSeq(final_lines, 1, k)

\* a write failure has replaced an earlier output by a strict part of the new one
C6_Witness ==
    /\ pc = "failed"
    /\ failed_at = "write"
    /\ out0.exists
    /\ out_file # out0
    /\ Len(out_file.lines) < Len(final_lines)

----------------------------------------------------------------------------
(* C7 *)

\* C7: the engine is called once per located file, in ascending file name order
\* and without repetition; while a call is in progress every earlier file already
\* has its entry; and integration starts only when every file has an entry.
C7_SequentialOnce ==
    /\ calls = SubSeq(audio_files, 1, Len(calls))
    /\ Len(calls) = i + (IF pc = "engine" THEN 1 ELSE 0)
    /\ \A a, b \in DOMAIN audio_files : a < b => StrLess(audio_files[a], audio_files[b])
    /\ pc \in {"transcribe", "engine"} \/ TranscriptionReturned =>
           Range(audio_files) = GlobOpus(dir.files)
    /\ pc = "engine" => DOMAIN transcriptions = {audio_files[k] : k \in 1..(Len(calls) - 1)}
    /\ (n > 0 \/ IntegrationReturned) =>
           /\ calls = audio_files
           /\ DOMAIN transcriptions = Range(audio_files)

\* the call for the second file is in progress, after a failure on the first
C7_Witness ==
    /\ pc = "engine"
    /\ Len(calls) = 2
    /\ transcriptions[audio_files[1]] = SENTINEL

----------------------------------------------------------------------------
(* C8 *)

----------------------------------------------------------------------------
(* C9 *)

ReportedCounts == {stats.total_audio_files, stats.transcriptions_added}

----------------------------------------------------------------------------
(* C10 *)

\* C10: after any number n of consumed lines the output has n lines plus the
\* insertion counter, the counter is the number of annotation lines in the output
\* and is at most n; on return it is the output length minus the input length.
C10_LoopInvariant ==
    /\ Len(final_lines) = n + transcriptions_added
    /\ transcriptions_added = AnnotationCount(final_lines)
    /\ transcriptions_added <= n
    /\ IntegrationReturned => transcriptions_added = Len(final_lines) - Len(chat_lines)

\* a line with two attachment references has been consumed and annotated once
C10_Witness ==
    /\ n = 2
    /\ chat_lines[1] = L_TWO
    /\ {A_OPUS, B_OPUS} \subseteq DOMAIN transcriptions
    /\ final_lines[2] = Annotation(transcriptions[A_OPUS])
    /\ transcriptions_added = 1

====
